---- MODULE Spec2Model ----
(***************************************************************************)
(* Model of pyAPT/message.py: the Message codec of the APT protocol.       *)
(*                                                                         *)
(* Message.__new__, Message.pack, Message.unpack, Message.__eq__,          *)
(* Message.datalength and Message.hasdata are pure functions; they are     *)
(* operators here.  The state machine is pack_unpack_test (construct a     *)
(* message, pack it, unpack the bytes, compare), generalised over its      *)
(* inputs, together with the decode of a buffer supplied by the transport. *)
(*                                                                         *)
(* Python values: an optional value is None (the empty tuple) or Some(x)   *)
(* (the one-element tuple <<x>>).  A raised exception is the err field of  *)
(* a result record: "AssertionError" (a failed assert, assertions on as in *)
(* the default interpreter) or "struct.error" (raised by the struct        *)
(* module).  pack is modelled with verbose=False.  Payloads are sequences  *)
(* of integers (the str convenience of __new__ is not modelled).           *)
(***************************************************************************)
EXTENDS Integers, Sequences, FiniteSets, TLC

\* Longest payload / trailing byte string that is enumerated.
MaxLen == 2

\* ------------------------------------------------------------------------
\* Python values and operators
\* ------------------------------------------------------------------------
None == <<>>
Some(x) == <<x>>

\* Results of a call: a value, or the exception it raised.
Ok(v) == [err |-> "none", val |-> v]
Raise(e) == [err |-> e, val |-> None]

\* x & y on non-negative integers
RECURSIVE BitAnd(_, _)
BitAnd(x, y) ==
  IF x = 0 \/ y = 0 THEN 0
  ELSE (x % 2) * (y % 2) + 2 * BitAnd(x \div 2, y \div 2)

\* x | y on non-negative integers
RECURSIVE BitOr(_, _)
BitOr(x, y) ==
  IF x = 0 THEN y
  ELSE IF y = 0 THEN x
  ELSE (IF x % 2 = 1 \/ y % 2 = 1 THEN 1 ELSE 0) + 2 * BitOr(x \div 2, y \div 2)

\* x << n
ShiftLeft(x, n) == x * (2 ^ n)

\* `if data:` : None and the empty sequence are both false.
Truthy(data) == data # None /\ Len(data[1]) > 0

\* 0x80, the most significant bit of the dest byte.
MSB == 128

\* MGMSG_HEADER_SIZE
MGMSG_HEADER_SIZE == 6

\* ------------------------------------------------------------------------
\* struct
\* ------------------------------------------------------------------------
\* struct accepts an unsigned value of w bits only in 0 .. 2^w - 1.
FitsB(x) == x >= 0 /\ x <= 255
FitsH(x) == x >= 0 /\ x <= 65535

\* '<H' : two bytes, little endian
PackH(x) == <<x % 256, x \div 256>>

\* st.unpack('<HBBBB', databytes[:6]) : the Header tuple, or struct.error
\* when the slice is shorter than 6 bytes.
StUnpackHeader_BE(databytes) ==
  IF Len(databytes) < MGMSG_HEADER_SIZE THEN Raise("struct.error")
  ELSE Ok([messageID |-> databytes[2] + 256 * databytes[1],
           param1 |-> databytes[3],
           param2 |-> databytes[4],
           dest |-> databytes[5],
           src |-> databytes[6]])
StUnpackHeader(databytes) ==
  IF Len(databytes) < MGMSG_HEADER_SIZE THEN Raise("struct.error")
  ELSE Ok([messageID |-> databytes[1] + 256 * databytes[2],
           param1 |-> databytes[3],
           param2 |-> databytes[4],
           dest |-> databytes[5],
           src |-> databytes[6]])

\* databytes[6:]
Tail6(databytes) ==
  IF Len(databytes) <= MGMSG_HEADER_SIZE THEN <<>>
  ELSE SubSeq(databytes, MGMSG_HEADER_SIZE + 1, Len(databytes))

\* st.unpack('<%dB' % datalen, databytes[6:]) : struct requires the buffer to
\* hold exactly datalen bytes.
StUnpackData_Lenient(datalen, rest) ==
  Ok(Some(IF Len(rest) <= datalen THEN rest ELSE SubSeq(rest, 1, datalen)))
StUnpackData(datalen, rest) ==
  IF Len(rest) # datalen THEN Raise("struct.error")
  ELSE Ok(Some(rest))

\* ------------------------------------------------------------------------
\* Message
\* ------------------------------------------------------------------------
\* Message.__new__(cls, messageID, dest, src, param1, param2, data)
Message_NoAssert(messageID, dest, src, param1, param2, data) ==
  IF Truthy(data)
  THEN Ok([messageID |-> messageID, param1 |-> None, param2 |-> None,
           dest |-> dest, src |-> src, data |-> data])
  ELSE Ok([messageID |-> messageID, param1 |-> Some(param1),
           param2 |-> Some(param2), dest |-> dest, src |-> src,
           data |-> None])
Message_KeepParams(messageID, dest, src, param1, param2, data) ==
  IF Truthy(data)
  THEN IF ~(param1 = 0 /\ param2 = 0) THEN Raise("AssertionError")
       ELSE Ok([messageID |-> messageID, param1 |-> Some(param1),
                param2 |-> Some(param2), dest |-> dest, src |-> src,
                data |-> data])
  ELSE Ok([messageID |-> messageID, param1 |-> Some(param1),
           param2 |-> Some(param2), dest |-> dest, src |-> src,
           data |-> None])
Message(messageID, dest, src, param1, param2, data) ==
  IF Truthy(data)
  THEN IF ~(param1 = 0 /\ param2 = 0) THEN Raise("AssertionError")
       ELSE Ok([messageID |-> messageID, param1 |-> None, param2 |-> None,
                dest |-> dest, src |-> src, data |-> data])
  ELSE Ok([messageID |-> messageID, param1 |-> Some(param1),
           param2 |-> Some(param2), dest |-> dest, src |-> src,
           data |-> None])

\* pack, the `if self.data:` branch: '<HHBB%dB'
PackData_NoFlag(self) ==
  LET datalen == Len(self.data[1])
      datalist == self.data[1]
  IN IF FitsH(self.messageID) /\ FitsH(datalen) /\ FitsB(self.dest)
        /\ FitsB(self.src) /\ \A i \in 1..datalen : FitsB(datalist[i])
     THEN Ok(PackH(self.messageID) \o PackH(datalen)
             \o <<self.dest, self.src>> \o datalist)
     ELSE Raise("struct.error")
PackData(self) ==
  LET datalen == Len(self.data[1])
      datalist == self.data[1]
      dest == BitOr(self.dest, MSB)
  IN IF FitsH(self.messageID) /\ FitsH(datalen) /\ FitsB(dest)
        /\ FitsB(self.src) /\ \A i \in 1..datalen : FitsB(datalist[i])
     THEN Ok(PackH(self.messageID) \o PackH(datalen)
             \o <<dest, self.src>> \o datalist)
     ELSE Raise("struct.error")

\* pack, the else branch: '<HBBBB'
PackHeader_ClearFlag(self) ==
  IF self.param1 = None \/ self.param2 = None THEN Raise("struct.error")
  ELSE IF FitsH(self.messageID) /\ FitsB(self.param1[1])
          /\ FitsB(self.param2[1]) /\ FitsB(self.dest) /\ FitsB(self.src)
       THEN Ok(PackH(self.messageID)
               \o <<self.param1[1], self.param2[1], self.dest % MSB, self.src>>)
       ELSE Raise("struct.error")
PackHeader(self) ==
  IF self.param1 = None \/ self.param2 = None THEN Raise("struct.error")
  ELSE IF FitsH(self.messageID) /\ FitsB(self.param1[1])
          /\ FitsB(self.param2[1]) /\ FitsB(self.dest) /\ FitsB(self.src)
       THEN Ok(PackH(self.messageID)
               \o <<self.param1[1], self.param2[1], self.dest, self.src>>)
       ELSE Raise("struct.error")

\* Message.pack(self)
pack(self) == IF Truthy(self.data) THEN PackData(self) ELSE PackHeader(self)

\* `if hd.dest & 0x80:` in unpack
IsLongFrame_Greater(hd) == hd.dest > MSB
IsLongFrame(hd) == BitAnd(hd.dest, MSB) # 0

\* Message.unpack(cls, databytes, header_only).  frame is the branch of
\* `if hd.dest & 0x80` that ran ("none" when the header did not parse).
unpack(databytes, header_only) ==
  LET h == StUnpackHeader(databytes)
      hd == h.val
  IN IF h.err # "none" THEN [frame |-> "none", res |-> Raise(h.err)]
     ELSE IF IsLongFrame(hd)
     THEN LET datalen == BitOr(hd.param1, ShiftLeft(hd.param2, 8))
              data == IF header_only THEN Ok(None)
                      ELSE StUnpackData(datalen, Tail6(databytes))
          IN [frame |-> "long",
              res |-> IF data.err # "none" THEN Raise(data.err)
                      ELSE Message(hd.messageID, hd.dest, hd.src,
                                   hd.param1, hd.param2, data.val)]
     ELSE [frame |-> "short",
           res |-> Message(hd.messageID, hd.dest, hd.src,
                           hd.param1, hd.param2, None)]

\* Message.hasdata
hasdata(self) == BitAnd(self.dest, MSB)

\* Message.datalength
datalength_LowByte(self) ==
  IF hasdata(self) # 0
  THEN IF Truthy(self.data) THEN Len(self.data[1]) ELSE self.param1[1]
  ELSE -1
datalength(self) ==
  IF hasdata(self) # 0
  THEN IF Truthy(self.data) THEN Len(self.data[1])
       ELSE BitOr(self.param1[1], ShiftLeft(self.param2[1], 8))
  ELSE -1

\* Message.__eq__(self, other): the exception of either pack, else the
\* comparison of the two byte strings.
eq(self, other) ==
  LET p == pack(self)
      q == pack(other)
  IN IF p.err # "none" THEN Raise(p.err)
     ELSE IF q.err # "none" THEN Raise(q.err)
     ELSE Ok(p.val = q.val)

\* ------------------------------------------------------------------------
\* Inputs
\* ------------------------------------------------------------------------
\* MGMSG_MOD_IDENTIFY (0x0223) and the largest 16-bit opcode
Opcodes == {547, 65535}
Dests == 0..255
Srcs == {1, 254}
\* (param1, param2); (0, 0) are the defaults, 256 does not fit a byte
ParamPairs == {<<0, 0>>, <<1, 0>>, <<0, 1>>, <<255, 1>>, <<256, 0>>}
DataBytes == {0, 255}
Payloads == UNION {[1..n -> DataBytes] : n \in 0..MaxLen}

\* the arguments of a construction
ArgSet ==
  [messageID : Opcodes, dest : Dests, src : Srcs, params : ParamPairs,
   data : {None} \cup {Some(p) : p \in Payloads}]

\* buffers handed to unpack by the transport: a header, then trailing bytes
LenLow == (0..(MaxLen + 1)) \cup {255}
LenHigh == {0, 1}
Buffers ==
  {<<35, 2, lo, hi, d, 1>> \o t :
     lo \in LenLow, hi \in LenHigh, d \in Dests, t \in Payloads}
\* buffers shorter than a header
ShortBuffers == {SubSeq(<<35, 2, 1, 0, 208, 1>>, 1, n) : n \in 0..5}

\* ------------------------------------------------------------------------
\* State machine: pack_unpack_test, and the decode of a received buffer
\* ------------------------------------------------------------------------
VARIABLES
  args,         \* Some(arguments of the construction), None for a received buffer
  header_only,  \* the header_only argument of the last unpack
  pc,           \* position: start, constructed, packed, received, unpacked, done, raised
  op,           \* the last operation that ran
  a,            \* Some(the constructed message)
  s,            \* Some(the bytes packed or received)
  b,            \* Some(the decoded message)
  frame,        \* the branch the last unpack took
  err           \* the exception raised, "none" if none

vars == <<args, header_only, pc, op, a, s, b, frame, err>>

Init ==
  /\ header_only = FALSE
  /\ op = "init"
  /\ a = None
  /\ b = None
  /\ frame = "none"
  /\ err = "none"
  /\ \/ /\ pc = "start"
        /\ args \in {Some(x) : x \in ArgSet}
        /\ s = None
     \/ /\ pc = "received"
        /\ args = None
        /\ s \in {Some(x) : x \in Buffers \cup ShortBuffers}

\* a = Message(messageID, dest=, src=, param1=, param2=, data=)
New ==
  /\ pc = "start"
  /\ LET x == args[1]
         r == Message(x.messageID, x.dest, x.src, x.params[1], x.params[2], x.data)
     IN /\ err' = r.err
        /\ pc' = IF r.err = "none" THEN "constructed" ELSE "raised"
        /\ a' = IF r.err = "none" THEN Some(r.val) ELSE None
  /\ op' = "new"
  /\ UNCHANGED <<args, header_only, s, b, frame>>

\* s = a.pack()
Pack ==
  /\ pc = "constructed"
  /\ LET r == pack(a[1])
     IN /\ err' = r.err
        /\ pc' = IF r.err = "none" THEN "packed" ELSE "raised"
        /\ s' = IF r.err = "none" THEN Some(r.val) ELSE None
  /\ op' = "pack"
  /\ UNCHANGED <<args, header_only, a, b, frame>>

\* b = Message.unpack(s, header_only=ho)
Unpack(ho) ==
  /\ pc \in {"packed", "received"}
  /\ LET u == unpack(s[1], ho)
     IN /\ frame' = u.frame
        /\ err' = u.res.err
        /\ pc' = IF u.res.err = "none" THEN "unpacked" ELSE "raised"
        /\ b' = IF u.res.err = "none" THEN Some(u.res.val) ELSE None
  /\ header_only' = ho
  /\ op' = "unpack"
  /\ UNCHANGED <<args, a, s>>

\* assert a == b
AssertEq ==
  /\ pc = "unpacked"
  /\ a # None
  /\ ~header_only
  /\ LET r == eq(a[1], b[1])
     IN /\ err' = IF r.err # "none" THEN r.err
                  ELSE IF r.val THEN "none" ELSE "AssertionError"
        /\ pc' = IF r.err = "none" /\ r.val THEN "done" ELSE "raised"
  /\ op' = "eq"
  /\ UNCHANGED <<args, header_only, a, s, b, frame>>

Next ==
  \/ New
  \/ Pack
  \/ \E ho \in BOOLEAN : Unpack(ho)
  \/ AssertEq

Spec == Init /\ [][Next]_vars

\* ------------------------------------------------------------------------
\* Properties
\* ------------------------------------------------------------------------
\* The bytes received or packed, and the fields of its header read by
\* arithmetic on the bytes.
Buf == s[1]
HasHeader == s # None /\ Len(Buf) >= 6
RawOpcode == Buf[1] + 256 * Buf[2]
RawLen == Buf[3] + 256 * Buf[4]
RawDest == Buf[5]
RawSrc == Buf[6]
Trailing == Len(Buf) - 6
\* d with bit 7 set, by arithmetic
WithBit7(d) == IF d < 128 THEN d + 128 ELSE d
\* the payload bytes a message carries (none when data is unset)
PayloadOf(m) == IF m.data = None THEN <<>> ELSE m.data[1]
\* the six header bytes of a long frame
LongHeader(id, n, dest, src) ==
  <<id % 256, id \div 256, n % 256, n \div 256, WithBit7(dest), src>>

\* C1: a message constructed with an extended payload (length 0..65535,
\* destination bit 7 clear, default inline parameters) packs, and unpacking
\* the bytes with header_only=False raises nothing and returns a message
\* that re-encodes to the same bytes.
C1_RoundTripExtended ==
  (/\ args # None
   /\ args[1].data # None
   /\ args[1].params = <<0, 0>>
   /\ args[1].dest < 128
   /\ ~header_only)
  => /\ err = "none"
     /\ op = "unpack" => /\ b # None
                         /\ pack(b[1]).err = "none"
                         /\ pack(b[1]).val = Buf

\* C2 (as stated): pack of a message constructed with an extended payload of
\* length N, N = 0 included, is the 6-byte long header (opcode LE, N LE,
\* destination | 0x80, source) followed by the N payload bytes.
C2_LongFrameEncoding_AnyN ==
  (op = "pack" /\ args[1].data # None)
  => /\ err = "none"
     /\ Buf = LongHeader(args[1].messageID, Len(args[1].data[1]),
                         args[1].dest, args[1].src) \o args[1].data[1]

\* C2 (amended): the same for N in 1..65535.
C2_LongFrameEncoding ==
  (op = "pack" /\ args[1].data # None /\ Len(args[1].data[1]) >= 1)
  => /\ err = "none"
     /\ Len(Buf) = 6 + Len(args[1].data[1])
     /\ Buf = LongHeader(args[1].messageID, Len(args[1].data[1]),
                         args[1].dest, args[1].src) \o args[1].data[1]

C2_Witness ==
  /\ op = "pack"
  /\ err = "none"
  /\ args[1].data # None
  /\ Len(args[1].data[1]) >= 2
  /\ args[1].data[1][1] # args[1].data[1][2]
  /\ args[1].dest < 128

\* C3: unpack with header_only=False of a buffer whose destination byte has
\* bit 7 set and which holds at least the declared L bytes after the header
\* succeeds and returns the header's opcode and source and the L bytes that
\* follow the header as payload.
C3_FullDecodeLongFrame ==
  (/\ op = "unpack"
   /\ ~header_only
   /\ HasHeader
   /\ RawDest >= 128
   /\ Trailing >= RawLen)
  => /\ err = "none"
     /\ b # None
     /\ b[1].messageID = RawOpcode
     /\ b[1].src = RawSrc
     /\ PayloadOf(b[1]) = SubSeq(Buf, 7, 6 + RawLen)

\* C4: unpack with header_only=True of a header whose destination byte has
\* bit 7 set succeeds whether or not payload bytes follow; datalength is the
\* declared length, dest is the byte as received and data is None.
C4_HeaderOnlyDecode ==
  (/\ op = "unpack"
   /\ header_only
   /\ HasHeader
   /\ RawDest >= 128)
  => /\ err = "none"
     /\ b # None
     /\ datalength(b[1]) = RawLen
     /\ b[1].dest = RawDest
     /\ b[1].data = None

C4_Witness ==
  /\ op = "unpack"
  /\ header_only
  /\ s # None
  /\ Len(Buf) = 6
  /\ RawDest >= 128
  /\ RawLen > 256
  /\ err = "none"

\* C5: unpack with header_only=False of a long-frame header declaring
\* L >= 1 with fewer than L bytes after it raises and returns no message.
C5_TruncationRejected ==
  (/\ op = "unpack"
   /\ ~header_only
   /\ HasHeader
   /\ RawDest >= 128
   /\ RawLen >= 1
   /\ Trailing < RawLen)
  => /\ err # "none"
     /\ pc = "raised"
     /\ b = None

C5_Witness ==
  /\ op = "unpack"
  /\ ~header_only
  /\ HasHeader
  /\ RawDest >= 128
  /\ Trailing >= 1
  /\ Trailing < RawLen
  /\ err = "struct.error"
  /\ b = None

\* C6 (as stated): a construction given a non-default param1 or param2 and
\* any payload, of any length, raises and yields no message.
C6_ConstructionRejected_AnyPayload ==
  (/\ op = "new"
   /\ args[1].params # <<0, 0>>
   /\ args[1].data # None)
  => /\ err # "none"
     /\ pc = "raised"
     /\ a = None

\* C6 (amended): a construction given a non-default param1 or param2 and a
\* non-empty payload raises and yields no message, so that no pack follows.
C6_ConstructionRejected ==
  (/\ op = "new"
   /\ args[1].params # <<0, 0>>
   /\ args[1].data # None
   /\ Len(args[1].data[1]) >= 1)
  => /\ err = "AssertionError"
     /\ pc = "raised"
     /\ a = None
     /\ ~ENABLED Pack

C6_Witness ==
  /\ op = "new"
  /\ args[1].params = <<0, 1>>
  /\ args[1].data # None
  /\ Len(args[1].data[1]) >= 1
  /\ pc = "raised"

\* C7: for every destination byte d in 0..255, unpack takes the long-frame
\* branch iff bit 7 of d is set: then bytes 2 and 3 are the little-endian
\* length the payload must have; otherwise bytes 2 and 3 become param1 and
\* param2 and the bytes after the header are not looked at.
C7_Discriminator ==
  (op = "unpack" /\ HasHeader)
  => /\ (frame = "long") <=> (RawDest >= 128)
     /\ (frame = "short") <=> (RawDest < 128)
     /\ RawDest < 128
          => /\ err = "none"
             /\ b[1].param1 = Some(Buf[3])
             /\ b[1].param2 = Some(Buf[4])
             /\ b[1].data = None
     /\ (RawDest >= 128 /\ ~header_only /\ Trailing # RawLen)
          => err = "struct.error"
     /\ (RawDest >= 128 /\ ~header_only /\ Trailing = RawLen /\ RawLen = 0)
          => err = "none"

C7_Witness ==
  /\ op = "unpack"
  /\ HasHeader
  /\ RawDest = 128
  /\ frame = "long"
  /\ ~header_only
  /\ Trailing = 1
  /\ RawLen = 2
  /\ err = "struct.error"

\* C8 (as stated): pack of a message without extended payload, fields in
\* range, is exactly the 6 bytes opcode LE, param1, param2, destination,
\* source, and the destination byte emitted has bit 7 clear.
C8_ShortFrameEncoding_Bit7Clear ==
  (/\ op = "pack"
   /\ a[1].data = None
   /\ a[1].param1[1] <= 255
   /\ a[1].param2[1] <= 255)
  => /\ err = "none"
     /\ Buf = <<a[1].messageID % 256, a[1].messageID \div 256,
                a[1].param1[1], a[1].param2[1], a[1].dest, a[1].src>>
     /\ Buf[5] < 128

\* C8 (amended): pack of a message without extended payload, fields in
\* range, is exactly the 6 bytes opcode LE, param1, param2, destination,
\* source, with the destination byte the message's dest unchanged: its bit
\* 7 is clear exactly when bit 7 of the message's dest is clear.
C8_ShortFrameEncoding ==
  (/\ op = "pack"
   /\ a[1].data = None
   /\ a[1].param1[1] <= 255
   /\ a[1].param2[1] <= 255)
  => /\ err = "none"
     /\ Len(Buf) = 6
     /\ Buf = <<a[1].messageID % 256, a[1].messageID \div 256,
                a[1].param1[1], a[1].param2[1], a[1].dest, a[1].src>>
     /\ (Buf[5] < 128) <=> (a[1].dest < 128)

C8_Witness ==
  /\ op = "pack"
  /\ err = "none"
  /\ a[1].data = None
  /\ a[1].param1 = Some(255)
  /\ a[1].dest >= 128

\* C9: a message without extended payload, fields in range and destination
\* bit 7 clear, packs; unpack of the bytes with header_only=False returns a
\* message with the same opcode, param1, param2, destination and source,
\* and the two compare equal.
C9_RoundTripInline ==
  (/\ a # None
   /\ a[1].data = None
   /\ a[1].dest < 128
   /\ a[1].param1[1] <= 255
   /\ a[1].param2[1] <= 255
   /\ ~header_only)
  => /\ err = "none"
     /\ op = "unpack"
          => /\ b # None
             /\ b[1].messageID = a[1].messageID
             /\ b[1].param1 = a[1].param1
             /\ b[1].param2 = a[1].param2
             /\ b[1].dest = a[1].dest
             /\ b[1].dest < 128
             /\ b[1].src = a[1].src
             /\ b[1].data = None
             /\ eq(a[1], b[1]) = Ok(TRUE)
     /\ op = "eq" => pc = "done"

C9_Witness ==
  /\ op = "eq"
  /\ pc = "done"
  /\ a[1].data = None
  /\ a[1].param1 = Some(255)
  /\ a[1].param2 = Some(1)
  /\ a[1].dest < 128
  /\ b # None

\* C10: every message that exists, constructed or decoded in either mode,
\* has exactly one variant: payload bytes with param1 and param2 unset, or
\* param1 and param2 with the payload unset.
Exclusive(m) ==
  \/ /\ m.data # None
     /\ Len(m.data[1]) >= 1
     /\ m.param1 = None
     /\ m.param2 = None
  \/ /\ m.data = None
     /\ m.param1 # None
     /\ m.param2 # None

C10_VariantExclusive ==
  /\ a # None => Exclusive(a[1])
  /\ b # None => Exclusive(b[1])

C10_Witness ==
  /\ a # None
  /\ a[1].data # None
  /\ a[1].param1 = None
  /\ b # None
  /\ frame = "long"
  /\ b[1].data = None
  /\ b[1].param1 # None

====
